---- MODULE Spec2Model ----
(***************************************************************************)
(* A model of the VM inventory tool: the VMInstance validation model       *)
(* (machine_model.py), the JSON record store with its backup file          *)
(* (storage.py), the Flask handlers that read, change and rewrite the      *)
(* store (api_server.py), the CLI dialogues that do the same from a second *)
(* process (main.py), and the probes, the health classification, the batch *)
(* run and the statistics of monitoring.py.                                *)
(*                                                                         *)
(* Python values are represented as follows.  A dict is a function whose   *)
(* DOMAIN is its set of keys.  The strings the code strips, lower-cases or *)
(* matches by prefix (name, os) are sequences of one-character strings;    *)
(* strings the code only compares (ip, status, check, url, health) are     *)
(* TLA+ strings; None is the string PyNone.                                *)
(***************************************************************************)
EXTENDS Integers, Sequences, FiniteSets, TLC

VARIABLES
    instances_file,   \* configs/instances.json
    backup_file,      \* configs/instances_backup.json
    pc,               \* per process: where its handler or dialogue stands
    loc,              \* per process: the request in hand and the handler's locals
    resp,             \* the response returned last, with the request it answers
    nreq,             \* number of requests begun so far
    raw,              \* VMInstance(**raw): the keyword arguments
    built,            \* the outcome of that construction
    mon,              \* one call of monitor_vm: the model, the network and the outcome
    batch,            \* one run of validate_all_instances
    stats             \* one call of display_statistics

vars == <<instances_file, backup_file, pc, loc, resp, nreq, raw, built, mon, batch, stats>>

(***************************************************************************)
(* Bounds of the model.                                                    *)
(***************************************************************************)
MaxStore == 2
MaxReqs == 2
MaxBatch == 3
MaxStat == 2

(***************************************************************************)
(* Python values.                                                          *)
(***************************************************************************)
PyNone == "None"

EmptyDict == [k \in {} |-> 0]

Has(d, k) == k \in DOMAIN d

\* dict.get(k) on a key that holds a character-sequence string: None is
\* rendered as a value no string equals.
NoName == <<"None">>

Get(d, k, dflt) == IF Has(d, k) THEN d[k] ELSE dflt

\* {**a, **b}
Merge(a, b) == [k \in DOMAIN a \cup DOMAIN b |-> IF k \in DOMAIN b THEN b[k] ELSE a[k]]

LowerChar(c) ==
    CASE c = "U" -> "u"
      [] c = "R" -> "r"
      [] c = "H" -> "h"
      [] c = "L" -> "l"
      [] OTHER -> c

Lower(s) == [i \in 1..Len(s) |-> LowerChar(s[i])]

RECURSIVE LStrip(_)
LStrip(s) == IF s # <<>> /\ Head(s) = " " THEN LStrip(Tail(s)) ELSE s

RECURSIVE RStrip(_)
RStrip(s) == IF s # <<>> /\ s[Len(s)] = " " THEN RStrip(SubSeq(s, 1, Len(s) - 1)) ELSE s

Strip(s) == RStrip(LStrip(s))

StartsWith(s, p) == Len(s) >= Len(p) /\ SubSeq(s, 1, Len(p)) = p

(***************************************************************************)
(* machine_model.py: VMInstance.                                           *)
(***************************************************************************)
FieldOrder ==
    <<"name", "ip", "os", "status", "check", "url",
      "cpu_percent", "memory_percent", "response_time_ms", "health">>

\* What IPvAnyAddress accepts, among the addresses the model submits.
ValidIPs == {"10.0.0.5", "::1"}

IPvAnyAddress(v) == v \in ValidIPs

allowed_os ==
    { <<"l","i","n","u","x">>, <<"w","i","n","d","o","w","s">>,
      <<"u","b","u","n","t","u">>, <<"c","e","n","t","o","s">>,
      <<"d","e","b","i","a","n">>, <<"r","e","d","h","a","t">>,
      <<"m","a","c","o","s">>, <<"a","r","c","h">>,
      <<"f","e","d","o","r","a">>, <<"i","o","s">> }

\* Each validator is TRUE when it returns its value and FALSE when it raises.
name_cannot_be_empty(v) == Strip(v) # <<>>

os_must_be_valid(v) ==
    LET cleaned == Lower(Strip(v))
    IN  \E os_name \in allowed_os :
            cleaned = os_name \/ StartsWith(cleaned, os_name \o <<" ">>)

status_must_be_valid(v) == v \in {"UP", "DOWN"}

CheckLiteral(v) == v \in {"ping", "http"}

HealthLiteral(v) == v \in {"OK", "WARN", "CRIT"}

\* info.data.get("check"): the validated value, the default when the key is
\* omitted, and None when the check field itself failed validation.
InfoDataCheck(d) ==
    IF ~Has(d, "check") THEN "ping"
    ELSE IF CheckLiteral(d["check"]) THEN d["check"]
    ELSE PyNone

url_required_if_http(v, check_value) ==
    /\ ~(check_value = "http" /\ v \in {PyNone, ""})
    /\ ~(check_value = "ping" /\ v # PyNone)

\* Whether pydantic records an error for field f of the keyword arguments d.
\* A field without a default is an error when omitted; a field with a default
\* (check, url) takes it without running its validators.
FieldFails(d, f) ==
    CASE f = "name" -> ~Has(d, f) \/ ~name_cannot_be_empty(d[f])
      [] f = "ip" -> ~Has(d, f) \/ ~IPvAnyAddress(d[f])
      [] f = "os" -> ~Has(d, f) \/ ~os_must_be_valid(d[f])
      [] f = "status" -> ~Has(d, f) \/ ~status_must_be_valid(d[f])
      [] f = "check" -> Has(d, f) /\ ~CheckLiteral(d[f])
      [] f = "url" -> Has(d, f) /\ ~url_required_if_http(d[f], InfoDataCheck(d))
      [] f = "cpu_percent" -> ~Has(d, f) \/ ~(d[f] >= 0 /\ d[f] <= 100)
      [] f = "memory_percent" -> ~Has(d, f) \/ ~(d[f] >= 0 /\ d[f] <= 100)
      [] f = "response_time_ms" -> ~Has(d, f) \/ ~(d[f] >= 0)
      [] f = "health" -> ~Has(d, f) \/ ~HealthLiteral(d[f])

\* The ipaddress object IPvAnyAddress returns for an accepted string.
ip_address(v) ==
    CASE v = "10.0.0.5" -> "IPv4Address('10.0.0.5')"
      [] v = "::1" -> "IPv6Address('::1')"

\* isinstance(v, str), among the values an ip attribute or argument takes.
IsStr(v) == v \notin {ip_address(a) : a \in ValidIPs}

\* The attributes of the constructed model: the validators return their
\* argument, IPvAnyAddress returns an address object.
ModelFields(d) ==
    [f \in {FieldOrder[i] : i \in 1..Len(FieldOrder)} |->
        IF Has(d, f) THEN (IF f = "ip" THEN ip_address(d[f]) ELSE d[f])
        ELSE IF f = "check" THEN "ping"
        ELSE PyNone]

\* A validation that stops at the first failing field.
VMInstanceFailFast(d) ==
    LET errs == SelectSeq(FieldOrder, LAMBDA f : FieldFails(d, f))
    IN  [ok |-> errs = <<>>,
         errors |-> IF errs = <<>> THEN <<>> ELSE <<Head(errs)>>,
         vm |-> IF errs = <<>> THEN ModelFields(d) ELSE EmptyDict]

\* VMInstance(**d): the model, or the ValidationError with one entry per
\* failing field, in field order.
VMInstance(d) ==
    LET errs == SelectSeq(FieldOrder, LAMBDA f : FieldFails(d, f))
    IN  [ok |-> errs = <<>>,
         errors |-> errs,
         vm |-> IF errs = <<>> THEN ModelFields(d) ELSE EmptyDict]

(***************************************************************************)
(* Keyword arguments submitted to VMInstance.  An option is <<>> when the  *)
(* key is omitted and <<v>> when it is given with value v.                 *)
(***************************************************************************)
Build(opts) ==
    [f \in {g \in DOMAIN opts : opts[g] # <<>>} |-> opts[f][1]]

NameA == <<"a">>
NameB == <<"b">>
NameC == <<"c">>

OsUbuntu == <<"U","b","u","n","t","u"," ","2","2">>
OsRedHat == <<"R","e","d"," ","H","a","t">>
OsLinuxMint == <<"l","i","n","u","x","m","i","n","t">>
OsLinux == <<" ","L","i","n","u","x">>

UrlHealth == "http://10.0.0.5/health"

RawInputs ==
    { Build([name |-> n, ip |-> i, os |-> o, status |-> s, check |-> c,
             url |-> u, cpu_percent |-> cp, memory_percent |-> m,
             response_time_ms |-> r, health |-> h]) :
        n \in {<<>>, <<NameA>>, <<<<>>>>, <<<<" ">>>>},
        i \in {<<>>, <<"10.0.0.5">>, <<"999.0.0.1">>},
        o \in {<<OsUbuntu>>, <<OsRedHat>>, <<OsLinuxMint>>, <<OsLinux>>},
        s \in {<<"UP">>, <<"up">>},
        c \in {<<>>, <<"ping">>, <<"http">>, <<"tcp">>},
        u \in {<<>>, <<PyNone>>, <<"">>, <<UrlHealth>>},
        cp \in {<<>>, <<50>>, <<101>>},
        m \in {<<>>, <<100>>},
        r \in {<<>>, <<0>>, <<-1>>},
        h \in {<<>>, <<"OK">>} }

NotBuilt == [done |-> FALSE, ok |-> FALSE, errors |-> <<>>, vm |-> EmptyDict]

(***************************************************************************)
(* The record store: a file is absent, or holds a JSON document whose      *)
(* shape is {"instances": [...]} ("dict") or a bare list ("list").         *)
(***************************************************************************)
NoFile == [exists |-> FALSE, shape |-> "dict", instances |-> <<>>]

DictFile(instances) == [exists |-> TRUE, shape |-> "dict", instances |-> instances]

ListFile(instances) == [exists |-> TRUE, shape |-> "list", instances |-> instances]

FullPing(n) ==
    [name |-> n, ip |-> "10.0.0.5", os |-> OsUbuntu, status |-> "UP",
     check |-> "ping", cpu_percent |-> 50, memory_percent |-> 100,
     response_time_ms |-> 0, health |-> "OK"]

FullHttp(n) == Merge(FullPing(n), [check |-> "http", url |-> UrlHealth])

Names == {NameA, NameB}

Threads == {"t1", "t2"}

Procs == Threads \cup {"cli"}

\* Request bodies of POST /instances.
AddPayloads ==
    {FullPing(n) : n \in Names} \cup {FullHttp(NameB)}
    \cup { [k \in DOMAIN FullPing(NameA) \ {"cpu_percent"} |-> FullPing(NameA)[k]],
           Merge(FullPing(NameA), [check |-> "http"]),
           Merge(FullPing(NameB), [ip |-> "999.0.0.1"]),
           EmptyDict }

\* Request bodies of PUT /instances/<name>.
UpdatePayloads ==
    { [status |-> "DOWN"], [name |-> NameA], [name |-> NameB],
      [cpu_percent |-> 101], [check |-> "http"], EmptyDict }

(***************************************************************************)
(* storage.py: backup_instances_file.                                      *)
(***************************************************************************)
\* shutil.copyfile; a missing source raises, which is logged and swallowed.
BackupCopy(f, b) == IF f.exists THEN f ELSE b

(***************************************************************************)
(* api_server.py: the pieces of the handlers.                              *)
(***************************************************************************)
\* The normalisation every handler applies to the loaded document.
LoadInstances(f) == IF f.exists THEN f.instances ELSE <<>>

\* any(inst.get("name") == vm.name for inst in instances)
DuplicateName(instances, name) ==
    \E i \in 1..Len(instances) : Get(instances[i], "name", NoName) = name

\* The index of the first record called name, 0 for None.
FindIndex(instances, name) ==
    IF \E i \in 1..Len(instances) : Get(instances[i], "name", NoName) = name
    THEN CHOOSE i \in 1..Len(instances) :
            /\ Get(instances[i], "name", NoName) = name
            /\ \A j \in 1..(i - 1) : Get(instances[j], "name", NoName) # name
    ELSE 0

\* The list with the validated model's dump appended in place of the body.
AddedListDumped(instances, payload) == Append(instances, ModelFields(payload))

\* instances.append(payload)
AddedList(instances, payload) == Append(instances, payload)

\* instances.pop(index)
PoppedList(instances, index) ==
    SubSeq(instances, 1, index - 1) \o SubSeq(instances, index + 1, Len(instances))

\* The record taken out and the merged one appended.
UpdatedListMoved(instances, index, merged) ==
    Append(PoppedList(instances, index), merged)

\* instances[index] = merged
UpdatedList(instances, index, merged) == [instances EXCEPT ![index] = merged]

Request(op, name, payload) == [op |-> op, name |-> name, payload |-> payload]

NoResp ==
    [n |-> 0, proc |-> "none", op |-> "none", name |-> <<>>, payload |-> EmptyDict,
     code |-> 0, ret |-> "none", body |-> <<>>]

NoLoc ==
    [op |-> "none", name |-> <<>>, payload |-> EmptyDict, read |-> <<>>,
     instances |-> <<>>, code |-> 0, ret |-> "none", body |-> <<>>]

\* The handler returns without touching a file.
Respond(p, r, code, ret, body) ==
    /\ resp' = [n |-> resp.n + 1, proc |-> p, op |-> r.op, name |-> r.name,
                payload |-> r.payload, code |-> code, ret |-> ret, body |-> body]
    /\ nreq' = nreq + 1
    /\ UNCHANGED <<instances_file, backup_file, pc, loc, raw, built, mon, batch, stats>>

\* The handler has turned the list it read into the list it will write and
\* goes on to the backup.
Proceed(p, r, read, instances, code, ret, body) ==
    /\ loc' = [loc EXCEPT ![p] =
                [op |-> r.op, name |-> r.name, payload |-> r.payload, read |-> read,
                 instances |-> instances, code |-> code, ret |-> ret, body |-> body]]
    /\ pc' = [pc EXCEPT ![p] = "backup"]
    /\ nreq' = nreq + 1
    /\ UNCHANGED <<instances_file, backup_file, resp, raw, built, mon, batch, stats>>

\* GET /instances
get_instances(t) ==
    /\ pc[t] = "idle" /\ nreq < MaxReqs
    /\ Respond(t, Request("list", <<>>, EmptyDict), 200, "ok",
               LoadInstances(instances_file))

\* POST /instances with the backup taken before the name check.
add_instance_backup_first(t, payload) ==
    /\ pc[t] = "idle" /\ nreq < MaxReqs
    /\ LET r == Request("add", <<>>, payload)
           v == VMInstance(payload)
           instances == LoadInstances(instances_file)
       IN  IF ~v.ok THEN Respond(t, r, 400, "error", <<>>)
           ELSE IF DuplicateName(instances, v.vm["name"])
                THEN /\ resp' = [n |-> resp.n + 1, proc |-> t, op |-> r.op, name |-> r.name,
                                 payload |-> r.payload, code |-> 409, ret |-> "error",
                                 body |-> <<>>]
                     /\ nreq' = nreq + 1
                     /\ backup_file' = BackupCopy(instances_file, backup_file)
                     /\ UNCHANGED <<instances_file, pc, loc, raw, built, mon, batch, stats>>
           ELSE /\ Len(instances) < MaxStore
                /\ Proceed(t, r, instances, AddedList(instances, payload), 201, "ok", <<>>)

\* POST /instances, up to the point where the new list is ready.
add_instance(t, payload) ==
    /\ pc[t] = "idle" /\ nreq < MaxReqs
    /\ LET r == Request("add", <<>>, payload)
           v == VMInstance(payload)
           instances == LoadInstances(instances_file)
       IN  IF ~v.ok THEN Respond(t, r, 400, "error", <<>>)
           ELSE IF DuplicateName(instances, v.vm["name"])
                THEN Respond(t, r, 409, "error", <<>>)
           ELSE /\ Len(instances) < MaxStore
                /\ Proceed(t, r, instances, AddedList(instances, payload), 201, "ok", <<>>)

\* PUT /instances/<name> that stores the merged record as it is.
update_instance_unvalidated(t, name, payload) ==
    /\ pc[t] = "idle" /\ nreq < MaxReqs
    /\ LET r == Request("update", name, payload)
           instances == LoadInstances(instances_file)
           index == FindIndex(instances, name)
       IN  IF ~instances_file.exists THEN Respond(t, r, 404, "error", <<>>)
           ELSE IF index = 0 THEN Respond(t, r, 404, "error", <<>>)
           ELSE Proceed(t, r, instances,
                        UpdatedList(instances, index, Merge(instances[index], payload)),
                        200, "ok", <<>>)

\* PUT /instances/<name>, up to the point where the new list is ready.
update_instance(t, name, payload) ==
    /\ pc[t] = "idle" /\ nreq < MaxReqs
    /\ LET r == Request("update", name, payload)
           instances == LoadInstances(instances_file)
           index == FindIndex(instances, name)
       IN  IF ~instances_file.exists THEN Respond(t, r, 404, "error", <<>>)
           ELSE IF index = 0 THEN Respond(t, r, 404, "error", <<>>)
           ELSE LET merged == Merge(instances[index], payload)
                IN  IF ~VMInstance(merged).ok THEN Respond(t, r, 400, "error", <<>>)
                    ELSE Proceed(t, r, instances, UpdatedList(instances, index, merged),
                                 200, "ok", <<>>)

\* DELETE /instances/<name>, up to the point where the new list is ready.
delete_instance(t, name) ==
    /\ pc[t] = "idle" /\ nreq < MaxReqs
    /\ LET r == Request("delete", name, EmptyDict)
           instances == LoadInstances(instances_file)
           index == FindIndex(instances, name)
       IN  IF ~instances_file.exists THEN Respond(t, r, 404, "error", <<>>)
           ELSE IF index = 0 THEN Respond(t, r, 404, "error", <<>>)
           ELSE Proceed(t, r, instances, PoppedList(instances, index), 200, "ok",
                        <<instances[index]>>)

(***************************************************************************)
(* The two file operations that end every successful handler.              *)
(***************************************************************************)
backup_instances_file(p) ==
    /\ pc[p] = "backup"
    /\ backup_file' = BackupCopy(instances_file, backup_file)
    /\ pc' = [pc EXCEPT ![p] = "write"]
    /\ UNCHANGED <<instances_file, loc, resp, nreq, raw, built, mon, batch, stats>>

\* json.dump({"instances": instances}, f) and the handler's return.
write_instances(p) ==
    /\ pc[p] = "write"
    /\ instances_file' = DictFile(loc[p].instances)
    /\ resp' = [n |-> resp.n + 1, proc |-> p, op |-> loc[p].op, name |-> loc[p].name,
                payload |-> loc[p].payload, code |-> loc[p].code,
                ret |-> loc[p].ret, body |-> loc[p].body]
    /\ loc' = [loc EXCEPT ![p] = NoLoc]
    /\ pc' = [pc EXCEPT ![p] = "idle"]
    /\ UNCHANGED <<backup_file, nreq, raw, built, mon, batch, stats>>

(***************************************************************************)
(* main.py: the CLI dialogues, run by a second process on the same files.  *)
(***************************************************************************)
\* str.upper() and str.lower() on the answers the model types in.
Upper(s) == CASE s = "up" -> "UP" [] s = "down" -> "DOWN" [] OTHER -> s

LowerCheck(s) == CASE s = "HTTP" -> "http" [] s = "Ping" -> "ping" [] OTHER -> s

\* load_instances: open() raises on a missing file and data.get raises on a
\* document that is a bare list.
LoadRaises(f) == ~f.exists \/ f.shape # "dict"

\* The dict add_new_machine builds from the answers.
NewMachineData(name, ip, os_name, status, check, url) ==
    LET data == [name |-> name, ip |-> ip, os |-> os_name, status |-> status, check |-> check]
    IN  IF check = "http" /\ url # "" THEN Merge(data, [url |-> url]) ELSE data

\* The dict edit_existing_machine builds: an empty answer keeps the value.
UpdatedData(inst, name, new_ip, new_os, new_status) ==
    [name |-> name,
     ip |-> IF new_ip # "" THEN new_ip ELSE inst["ip"],
     os |-> IF new_os # <<>> THEN new_os ELSE inst["os"],
     status |-> IF new_status # "" THEN new_status ELSE inst["status"]]

\* Menu option 4.
add_new_machine(name_in, status_in, check_in, retry, confirm) ==
    /\ pc["cli"] = "idle" /\ nreq < MaxReqs
    /\ LET name == Strip(name_in)
           check == IF LowerCheck(check_in) = "" THEN "ping" ELSE LowerCheck(check_in)
           data == NewMachineData(name, "10.0.0.5", Strip(OsLinux), Upper(status_in),
                                  check, UrlHealth)
           r == Request("cli_add", name, data)
           again == IF retry THEN "retry" ELSE "cancel"
       IN  IF ~VMInstance(data).ok THEN Respond("cli", r, 0, again, <<>>)
           ELSE IF LoadRaises(instances_file) THEN Respond("cli", r, 0, "crash", <<>>)
           ELSE IF DuplicateName(instances_file.instances, name)
                THEN Respond("cli", r, 0, again, <<>>)
           ELSE IF ~confirm THEN Respond("cli", r, 0, "cancel", <<>>)
           ELSE /\ Len(instances_file.instances) < MaxStore
                /\ Proceed("cli", r, instances_file.instances,
                           AddedList(instances_file.instances, data), 0, "added", <<>>)

\* Menu option 7.
edit_existing_machine(name_in, new_ip, new_status_in, confirm) ==
    /\ pc["cli"] = "idle" /\ nreq < MaxReqs
    /\ LET name == Strip(name_in)
           instances == instances_file.instances
           idx == FindIndex(instances, name)
           r == Request("cli_edit", name, [ip |-> new_ip, status |-> Upper(new_status_in)])
       IN  IF LoadRaises(instances_file) THEN Respond("cli", r, 0, "crash", <<>>)
           ELSE IF idx = 0 THEN Respond("cli", r, 0, "not_found", <<>>)
           ELSE LET updated_data == UpdatedData(instances[idx], name, new_ip, <<>>,
                                                Upper(new_status_in))
                IN  IF ~VMInstance(updated_data).ok THEN Respond("cli", r, 0, "invalid", <<>>)
                    ELSE IF ~confirm THEN Respond("cli", r, 0, "discarded", <<>>)
                    ELSE Proceed("cli", r, instances,
                                 UpdatedList(instances, idx, updated_data),
                                 0, "updated", <<>>)

\* Menu option 8.
remove_machine(name_in, confirm) ==
    /\ pc["cli"] = "idle" /\ nreq < MaxReqs
    /\ LET name == Strip(name_in)
           instances == instances_file.instances
           idx == FindIndex(instances, name)
           r == Request("cli_remove", name, EmptyDict)
       IN  IF LoadRaises(instances_file) THEN Respond("cli", r, 0, "crash", <<>>)
           ELSE IF idx = 0 THEN Respond("cli", r, 0, "not_found", <<>>)
           ELSE IF ~confirm THEN Respond("cli", r, 0, "canceled", <<>>)
           ELSE Proceed("cli", r, instances, PoppedList(instances, idx), 0, "deleted", <<>>)

(***************************************************************************)
(* monitoring.py: the probes and monitor_vm.  The network is what the ping *)
(* process and requests.get would do for this machine: net.ping is the     *)
(* exit of the ping process with the time it took, or the OSError of a     *)
(* host without a ping executable; net.http is the response with the time  *)
(* it took, or a RequestException.                                         *)
(***************************************************************************)
Latencies == {50, 250, 251, 400, 401, 1000}

StatusCodes == {200, 399, 400, 404, 500, 503}

PingOutcomes ==
    [raises : {FALSE}, success : BOOLEAN, elapsed_ms : Latencies]
    \cup {[raises |-> TRUE, success |-> FALSE, elapsed_ms |-> 0]}

HttpOutcomes ==
    [exc : {FALSE}, status_code : StatusCodes, elapsed_ms : Latencies]
    \cup [exc : {TRUE}, status_code : {0}, elapsed_ms : {1000}]

\* run_ping(ip): subprocess.run raises TypeError on an argument that is not
\* str, bytes or a path, and OSError when there is no ping executable;
\* nothing in run_ping catches either.  Otherwise (success, elapsed_ms).
run_ping(ip, ping) ==
    IF ~IsStr(ip) \/ ping.raises
    THEN [raises |-> TRUE, success |-> FALSE, elapsed_ms |-> 0]
    ELSE [raises |-> FALSE, success |-> ping.success, elapsed_ms |-> ping.elapsed_ms]

\* run_http(url): (True, status_code, elapsed_ms), or (False, None,
\* elapsed_ms) when requests.get raises a RequestException.
run_http(url, http) ==
    IF http.exc
    THEN [success |-> FALSE, status_code |-> PyNone, elapsed_ms |-> http.elapsed_ms]
    ELSE [success |-> TRUE, status_code |-> http.status_code, elapsed_ms |-> http.elapsed_ms]

\* What monitor_vm hands back: the exception that left it, or the dict it
\* returns together with the reason it printed.
MonitorRaised == [raises |-> TRUE, reason |-> "", result |-> EmptyDict]

MonitorResult(vm, health, reason, response_time_ms) ==
    [raises |-> FALSE, reason |-> reason,
     result |-> [name |-> vm["name"], status |-> vm["status"], health |-> health,
                 method |-> vm["check"], response_time_ms |-> response_time_ms,
                 cpu_percent |-> vm["cpu_percent"],
                 memory_percent |-> vm["memory_percent"]]]

monitor_vm(vm, net) ==
    LET method == vm["check"]
    IN  IF method = "ping"
        THEN LET p == run_ping(vm["ip"], net.ping)
             IN  IF p.raises THEN MonitorRaised
                 ELSE IF ~p.success
                      THEN MonitorResult(vm, "CRIT", "Ping failed", p.elapsed_ms)
                 ELSE IF p.elapsed_ms > 250
                      THEN MonitorResult(vm, "WARN", "High latency", p.elapsed_ms)
                 ELSE MonitorResult(vm, "OK", "Healthy", p.elapsed_ms)
        ELSE IF method = "http"
        THEN IF vm["url"] \in {PyNone, ""}
             THEN MonitorResult(vm, "CRIT", "Missing URL for HTTP check", 0)
             ELSE LET h == run_http(vm["url"], net.http)
                  IN  IF ~h.success
                      THEN MonitorResult(vm, "CRIT", "HTTP request failed", h.elapsed_ms)
                      ELSE IF h.status_code >= 500
                           THEN MonitorResult(vm, "CRIT", "HTTP code", h.elapsed_ms)
                      ELSE IF h.status_code >= 400 \/ h.elapsed_ms > 400
                           THEN MonitorResult(vm, "WARN", "HTTP code or slow response",
                                              h.elapsed_ms)
                      ELSE MonitorResult(vm, "OK", "Healthy", h.elapsed_ms)
        ELSE MonitorResult(vm, "WARN", "Unsupported check method", PyNone)

NoOutcome == [raises |-> FALSE, reason |-> "", result |-> EmptyDict]

NoNet ==
    [ping |-> [raises |-> FALSE, success |-> FALSE, elapsed_ms |-> 0],
     http |-> [exc |-> TRUE, status_code |-> 0, elapsed_ms |-> 0]]

NoMon == [pc |-> "off", vm |-> EmptyDict, net |-> NoNet, out |-> NoOutcome]

\* One call monitor_vm(vm) on the network mon.net.
monitor_call ==
    /\ mon.pc = "ready"
    /\ mon' = [mon EXCEPT !.pc = "done", !.out = monitor_vm(mon.vm, mon.net)]
    /\ UNCHANGED <<instances_file, backup_file, pc, loc, resp, nreq, raw, built, batch, stats>>

(***************************************************************************)
(* monitoring.py: validate_all_instances, one loop iteration per step.     *)
(***************************************************************************)
NoBatch ==
    [pc |-> "off", instances |-> <<>>, idx |-> 1, results |-> <<>>, log |-> <<>>,
     report |-> "none", failing |-> <<>>]

\* logger.error for an entry the loop gives up on.
SkipEntry(idx, kind) == [idx |-> idx, kind |-> kind]

\* An iteration in which an exception of monitor_vm leaves the loop.
validate_entry_uncaught(net) ==
    /\ batch.pc = "loop" /\ batch.idx <= Len(batch.instances)
    /\ LET v == VMInstance(batch.instances[batch.idx])
           m == monitor_vm(v.vm, net)
       IN  batch' =
             IF ~v.ok
             THEN [batch EXCEPT !.idx = @ + 1,
                                !.log = Append(@, SkipEntry(batch.idx, "invalid"))]
             ELSE IF m.raises
             THEN [batch EXCEPT !.pc = "aborted"]
             ELSE [batch EXCEPT !.idx = @ + 1, !.results = Append(@, m.result)]
    /\ UNCHANGED <<instances_file, backup_file, pc, loc, resp, nreq, raw, built, mon, stats>>

\* The body of the for loop: both try blocks end in `continue`.
validate_entry(net) ==
    /\ batch.pc = "loop" /\ batch.idx <= Len(batch.instances)
    /\ LET v == VMInstance(batch.instances[batch.idx])
           m == monitor_vm(v.vm, net)
       IN  batch' =
             IF ~v.ok
             THEN [batch EXCEPT !.idx = @ + 1,
                                !.log = Append(@, SkipEntry(batch.idx, "invalid"))]
             ELSE IF m.raises
             THEN [batch EXCEPT !.idx = @ + 1,
                                !.log = Append(@, SkipEntry(batch.idx, "monitoring failed"))]
             ELSE [batch EXCEPT !.idx = @ + 1, !.results = Append(@, m.result)]
    /\ UNCHANGED <<instances_file, backup_file, pc, loc, resp, nreq, raw, built, mon, stats>>

\* [r for r in results if r["health"] != "OK"], by name.
Failing(results) ==
    LET bad == SelectSeq(results, LAMBDA r : r["health"] # "OK")
    IN  [i \in 1..Len(bad) |-> bad[i]["name"]]

\* What follows the loop.
validate_report ==
    /\ batch.pc = "loop" /\ batch.idx > Len(batch.instances)
    /\ batch' =
         [batch EXCEPT
            !.pc = "done",
            !.report = IF batch.results = <<>> THEN "no VMs validated"
                       ELSE IF Failing(batch.results) # <<>> THEN "did not pass"
                       ELSE "all passed",
            !.failing = Failing(batch.results)]
    /\ UNCHANGED <<instances_file, backup_file, pc, loc, resp, nreq, raw, built, mon, stats>>

(***************************************************************************)
(* monitoring.py: display_statistics (main.py carries the same function).  *)
(* It reads the instances file as it is, without validation.  In the files *)
(* of the model a metric is an int or its key is absent.                   *)
(***************************************************************************)
RECURSIVE Sum(_)
Sum(xs) == IF xs = <<>> THEN 0 ELSE Head(xs) + Sum(Tail(xs))

\* isinstance(inst.get(f), (int, float))
IsNumber(inst, f) == Has(inst, f) /\ inst[f] \in Int

\* [inst.get(f) for inst in instances if isinstance(inst.get(f), (int, float))]
Numbers(instances, f) ==
    LET numeric == SelectSeq(instances, LAMBDA inst : IsNumber(inst, f))
    IN  [i \in 1..Len(numeric) |-> numeric[i][f]]

\* sum(xs) / len(xs) if xs else 0, as the fraction num/den.
Average(xs) ==
    IF xs # <<>> THEN [num |-> Sum(xs), den |-> Len(xs)] ELSE [num |-> 0, den |-> 1]

\* An average taken over all the records, a missing value counting as zero.
AverageOverAll(instances, f) ==
    IF Numbers(instances, f) # <<>>
    THEN [num |-> Sum(Numbers(instances, f)), den |-> Len(instances)]
    ELSE [num |-> 0, den |-> 1]

\* The average display_statistics reports for metric f.
FieldAverage(instances, f) == Average(Numbers(instances, f))

\* s.split()[0] of a stripped, non-empty string.
RECURSIVE FirstToken(_)
FirstToken(s) ==
    IF s = <<>> \/ Head(s) = " " THEN <<>> ELSE <<Head(s)>> \o FirstToken(Tail(s))

Unknown == <<"u","n","k","n","o","w","n">>

\* inst.get("os", "unknown").strip().split()[0].lower(); <<>> stands for the
\* IndexError of an os that is empty or blank.
OsValue(inst) == Lower(FirstToken(Strip(Get(inst, "os", Unknown))))

\* collections.Counter over the keys, in the order of the input.
Counter(keys) ==
    [k \in {keys[i] : i \in 1..Len(keys)} |->
        Cardinality({i \in 1..Len(keys) : keys[i] = k})]

UpCount(instances) ==
    Len(SelectSeq(instances, LAMBDA inst : Get(inst, "status", PyNone) = "UP"))

\* The figures of the summary, over a list whose os values have a token.
Summary(instances) ==
    [raised |-> FALSE, printed |-> "VM Summary",
     total |-> Len(instances),
     up |-> UpCount(instances),
     down |-> Len(instances) - UpCount(instances),
     os_counter |-> Counter([i \in 1..Len(instances) |-> OsValue(instances[i])]),
     health_counter |->
         Counter([i \in 1..Len(instances) |->
                     Upper(Get(instances[i], "health", "UNKNOWN"))]),
     avg_rt |-> FieldAverage(instances, "response_time_ms"),
     avg_cpu |-> FieldAverage(instances, "cpu_percent"),
     avg_mem |-> FieldAverage(instances, "memory_percent")]

\* The function without its early return on an empty list.
StatisticsOfAnyList(f) ==
    IF LoadRaises(f) THEN [raised |-> TRUE, printed |-> "nothing"]
    ELSE IF \E i \in 1..Len(f.instances) : OsValue(f.instances[i]) = <<>>
         THEN [raised |-> TRUE, printed |-> "nothing"]
    ELSE Summary(f.instances)

\* What display_statistics prints, or the exception that leaves it.
Statistics(f) ==
    IF LoadRaises(f) THEN [raised |-> TRUE, printed |-> "nothing"]
    ELSE LET instances == f.instances
         IN  IF instances = <<>> THEN [raised |-> FALSE, printed |-> "No machines found"]
             ELSE IF \E i \in 1..Len(instances) : OsValue(instances[i]) = <<>>
                  THEN [raised |-> TRUE, printed |-> "nothing"]
             ELSE Summary(instances)

NoStats == [pc |-> "off", out |-> [raised |-> FALSE, printed |-> "nothing"]]

display_statistics ==
    /\ stats.pc = "ready"
    /\ stats' = [pc |-> "done", out |-> Statistics(instances_file)]
    /\ UNCHANGED <<instances_file, backup_file, pc, loc, resp, nreq, raw, built, mon, batch>>

(***************************************************************************)
(* The specifications.                                                     *)
(***************************************************************************)
InitFiles ==
    { NoFile, DictFile(<<>>), DictFile(<<FullPing(NameA)>>),
      DictFile(<<FullPing(NameA), FullHttp(NameB)>>), ListFile(<<FullHttp(NameB)>>) }

Init ==
    /\ instances_file \in InitFiles
    /\ backup_file = NoFile
    /\ pc = [p \in Procs |-> "idle"]
    /\ loc = [p \in Procs |-> NoLoc]
    /\ resp = NoResp
    /\ nreq = 0
    /\ raw = EmptyDict
    /\ built = NotBuilt
    /\ mon = NoMon
    /\ batch = NoBatch
    /\ stats = NoStats

ApiBegin(t) ==
    \/ get_instances(t)
    \/ \E payload \in AddPayloads : add_instance(t, payload)
    \/ \E name \in Names \cup {NameC}, payload \in UpdatePayloads :
            update_instance(t, name, payload)
    \/ \E name \in Names \cup {NameC} : delete_instance(t, name)

CliBegin ==
    \/ \E name_in \in {<<" ", "a">>, NameC}, status_in \in {"up"},
          check_in \in {"", "HTTP"}, retry \in BOOLEAN, confirm \in BOOLEAN :
            add_new_machine(name_in, status_in, check_in, retry, confirm)
    \/ \E name_in \in {<<"a", " ">>, NameC}, new_ip \in {"", "::1"},
          new_status_in \in {"", "down"}, confirm \in BOOLEAN :
            edit_existing_machine(name_in, new_ip, new_status_in, confirm)
    \/ \E name_in \in {NameA, <<" ", "b">>, NameC}, confirm \in BOOLEAN :
            remove_machine(name_in, confirm)

Continue(p) ==
    \/ backup_instances_file(p)
    \/ write_instances(p)

\* Handler threads of the Flask server and the CLI process interleave at
\* their file operations.
Next ==
    \/ \E t \in Threads : ApiBegin(t)
    \/ CliBegin
    \/ \E p \in Procs : Continue(p)

Spec == Init /\ [][Next]_vars

\* One client at a time: a request begins only when no other is under way.
AllIdle == \A p \in Procs : pc[p] = "idle"

SeqNext ==
    \/ AllIdle /\ \E t \in Threads : ApiBegin(t)
    \/ AllIdle /\ CliBegin
    \/ \E p \in Procs : Continue(p)

SeqSpec == Init /\ [][SeqNext]_vars

\* VMInstance applied to every combination of keyword arguments.
VInit ==
    /\ instances_file = NoFile
    /\ backup_file = NoFile
    /\ pc = [p \in Procs |-> "idle"]
    /\ loc = [p \in Procs |-> NoLoc]
    /\ resp = NoResp
    /\ nreq = 0
    /\ raw \in RawInputs
    /\ built = NotBuilt
    /\ mon = NoMon
    /\ batch = NoBatch
    /\ stats = NoStats

Construct ==
    /\ ~built.done
    /\ built' = [done |-> TRUE, ok |-> VMInstance(raw).ok,
                 errors |-> VMInstance(raw).errors, vm |-> VMInstance(raw).vm]
    /\ UNCHANGED <<instances_file, backup_file, pc, loc, resp, nreq, raw,
                 mon, batch, stats>>

VSpec == VInit /\ [][Construct]_vars

\* The store at rest, for the specifications of the monitoring functions.
AtRest ==
    /\ backup_file = NoFile
    /\ pc = [p \in Procs |-> "idle"]
    /\ loc = [p \in Procs |-> NoLoc]
    /\ resp = NoResp
    /\ nreq = 0
    /\ raw = EmptyDict
    /\ built = NotBuilt

\* The models monitor_vm is called with: what VMInstance makes of a record.
MonitorRecords ==
    { FullPing(NameA), Merge(FullPing(NameA), [ip |-> "::1"]), FullHttp(NameB),
      Merge(FullPing(NameC), [check |-> "http"]) }

MonitorVMs == {VMInstance(d).vm : d \in {r \in MonitorRecords : VMInstance(r).ok}}

Nets == [ping : PingOutcomes, http : HttpOutcomes]

\* monitor_vm on every model and every behaviour of the network.
MInit ==
    /\ AtRest
    /\ instances_file = NoFile
    /\ mon \in [pc : {"ready"}, vm : MonitorVMs, net : Nets, out : {NoOutcome}]
    /\ batch = NoBatch
    /\ stats = NoStats

MSpec == MInit /\ [][monitor_call]_vars

\* The lists validate_all_instances is given: valid and invalid entries,
\* repeated or not, in any order.
BatchEntries ==
    { FullHttp(NameA), FullPing(NameB), Merge(FullHttp(NameC), [name |-> <<" ">>]),
      Merge(FullPing(NameC), [check |-> "http"]) }

RECURSIVE SeqsUpTo(_, _)
SeqsUpTo(S, n) ==
    IF n = 0 THEN {<<>>}
    ELSE SeqsUpTo(S, n - 1) \cup {Append(q, e) : q \in {x \in SeqsUpTo(S, n - 1) : Len(x) = n - 1}, e \in S}

BatchNets ==
    [ping : {[raises |-> FALSE, success |-> TRUE, elapsed_ms |-> 50],
             [raises |-> FALSE, success |-> FALSE, elapsed_ms |-> 1000]},
     http : {[exc |-> FALSE, status_code |-> 200, elapsed_ms |-> 50],
             [exc |-> FALSE, status_code |-> 404, elapsed_ms |-> 50],
             [exc |-> FALSE, status_code |-> 503, elapsed_ms |-> 1000],
             [exc |-> TRUE, status_code |-> 0, elapsed_ms |-> 1000]}]

BInit ==
    /\ AtRest
    /\ instances_file = NoFile
    /\ mon = NoMon
    /\ batch \in [pc : {"loop"}, instances : SeqsUpTo(BatchEntries, MaxBatch), idx : {1},
                  results : {<<>>}, log : {<<>>}, report : {"none"}, failing : {<<>>}]
    /\ stats = NoStats

BNext ==
    \/ \E net \in BatchNets : validate_entry(net)
    \/ validate_report

BSpec == BInit /\ [][BNext]_vars

\* The loop is sequential code: it takes its next step.
BFairSpec == BSpec /\ WF_vars(BNext)

\* The documents display_statistics may find, written by hand or by the
\* handlers.
StatRecords ==
    { Build([name |-> <<NameA>>, os |-> <<OsUbuntu>>, status |-> st, health |-> <<"OK">>,
             cpu_percent |-> cp, memory_percent |-> m, response_time_ms |-> r]) :
        st \in {<<>>, <<"UP">>, <<"DOWN">>, <<"MAINTENANCE">>},
        cp \in {<<>>, <<50>>, <<75>>},
        m \in {<<>>, <<100>>},
        r \in {<<>>, <<300>>} }
    \cup { [name |-> NameB, status |-> "UP", cpu_percent |-> 50],
           [name |-> NameB, os |-> <<" ">>, status |-> "UP"],
           [name |-> NameB, os |-> OsRedHat, status |-> "DOWN", cpu_percent |-> 0] }

StatFiles ==
    {NoFile, ListFile(<<FullPing(NameA)>>)}
    \cup {DictFile(q) : q \in SeqsUpTo(StatRecords, MaxStat)}

SInit ==
    /\ AtRest
    /\ instances_file \in StatFiles
    /\ mon = NoMon
    /\ batch = NoBatch
    /\ stats = [pc |-> "ready", out |-> [raised |-> FALSE, printed |-> "nothing"]]

StSpec == SInit /\ [][display_statistics]_vars

(***************************************************************************)
(* Properties of the record store.                                         *)
(***************************************************************************)
Stored == LoadInstances(instances_file)

NameIn(instances, name) ==
    \E i \in 1..Len(instances) : Has(instances[i], "name") /\ instances[i]["name"] = name

\* The first position of a record called name (the list holds one).
FirstNamed(instances, name) ==
    CHOOSE i \in 1..Len(instances) :
        /\ Has(instances[i], "name") /\ instances[i]["name"] = name
        /\ \A j \in 1..Len(instances) :
              (Has(instances[j], "name") /\ instances[j]["name"] = name) => i <= j

\* A response has been returned in this step.
Answered == resp'.n # resp.n

\* C1: no two records of the store have the same name.
NamesUnique ==
    \A i, j \in 1..Len(Stored) :
        (i # j /\ Has(Stored[i], "name") /\ Has(Stored[j], "name"))
            => Stored[i]["name"] # Stored[j]["name"]

\* C2: at most one HTTP handler at a time is between reading the instances
\* file and writing it back, and the list a handler in that stretch has read
\* is still the content of the file.
WritesSerialized ==
    /\ Cardinality({t \in Threads : pc[t] # "idle"}) <= 1
    /\ \A t \in Threads : pc[t] # "idle" => loc[t].read = Stored

\* C3: when a handler is about to overwrite an existing instances file, the
\* backup file holds the content the instances file has at that moment.
BackupHoldsPriorState ==
    \A p \in Procs :
        (pc[p] = "write" /\ instances_file.exists) => backup_file = instances_file

\* The error a request must be answered with, 0 when it must be served.
MustReject(r, instances) ==
    CASE r.op = "add" ->
            IF ~VMInstance(r.payload).ok THEN 400
            ELSE IF NameIn(instances, r.payload["name"]) THEN 409
            ELSE 0
      [] r.op = "update" ->
            IF ~NameIn(instances, r.name) THEN 404
            ELSE IF ~VMInstance(Merge(instances[FirstNamed(instances, r.name)], r.payload)).ok
                 THEN 400
            ELSE 0
      [] r.op = "delete" -> IF ~NameIn(instances, r.name) THEN 404 ELSE 0

\* C4: an HTTP add of a valid record whose name exists is answered 409, an
\* update or delete of an unknown name 404, an add or update whose (merged)
\* record fails validation 400 (validation of an add comes before the name
\* check); a request answered so leaves the instances file and the backup
\* file as they were, and no other request is turned away.
RejectionsChangeNothing ==
    [][ \A t \in Threads :
          LET answered == Answered /\ nreq' = nreq + 1 /\ resp'.proc = t
              went == pc[t] = "idle" /\ pc'[t] = "backup"
              r == IF answered THEN resp' ELSE loc'[t]
          IN  ((answered \/ went) /\ r.op \in {"add", "update", "delete"}) =>
                IF MustReject(r, Stored) # 0
                THEN /\ answered
                     /\ resp'.code = MustReject(r, Stored)
                     /\ instances_file' = instances_file
                     /\ backup_file' = backup_file
                ELSE went
      ]_vars

RejectedWitness ==
    /\ resp.op = "add" /\ resp.code = 409
    /\ backup_file.exists

\* C5: when an add is answered 201, the list a listing returns is the list
\* it returned before with the submitted record, field for field, at its end.
AddThenList ==
    [][ (Answered /\ resp'.op = "add" /\ resp'.code = 201) =>
            LoadInstances(instances_file') = Append(Stored, resp'.payload)
      ]_vars

AddWitness ==
    /\ resp.op = "add" /\ resp.code = 201
    /\ Len(Stored) >= 2
    /\ Stored[Len(Stored)] = resp.payload

\* The fields an update supplies: the keys of a PUT body, the questions of
\* the CLI dialogue that were given an answer.
Supplied(r) ==
    IF r.op = "update" THEN DOMAIN r.payload
    ELSE {k \in DOMAIN r.payload : r.payload[k] # ""}

\* C6: after a successful update of the record named N (PUT, or the CLI
\* edit), every field of it that the update did not supply has its prior
\* value and every other record is unchanged, in its position.
UpdateMerges ==
    [][ (Answered /\ \/ resp'.op = "update" /\ resp'.code = 200
                     \/ resp'.op = "cli_edit" /\ resp'.ret = "updated") =>
            LET before == Stored
                after == LoadInstances(instances_file')
                idx == FirstNamed(before, resp'.name)
            IN  /\ NameIn(before, resp'.name)
                /\ Len(after) = Len(before)
                /\ \A i \in 1..Len(before) : i # idx => after[i] = before[i]
                /\ \A k \in DOMAIN before[idx] \ Supplied(resp') :
                      Has(after[idx], k) /\ after[idx][k] = before[idx][k]
      ]_vars

UpdateWitness ==
    /\ resp.op = "update" /\ resp.code = 200
    /\ resp.payload = [status |-> "DOWN"]
    /\ Len(Stored) = 2
    /\ Stored[1]["status"] = "DOWN" /\ Stored[1]["health"] = "OK"

\* C7: after a successful delete of name N the store holds no record named
\* N, the response carries the record as it was stored, and all other
\* records are unchanged.
DeleteRemoves ==
    [][ (Answered /\ resp'.op = "delete" /\ resp'.code = 200) =>
            LET before == Stored
                after == LoadInstances(instances_file')
            IN  /\ ~NameIn(after, resp'.name)
                /\ NameIn(before, resp'.name)
                /\ resp'.body = <<before[FirstNamed(before, resp'.name)]>>
                /\ after = SelectSeq(before, LAMBDA inst : inst["name"] # resp'.name)
      ]_vars

(***************************************************************************)
(* Properties of VMInstance.                                               *)
(***************************************************************************)
\* C8: an accepted record with check http has a non-empty url, and an
\* accepted record with check ping has none.
UrlIffHttp ==
    (built.done /\ built.ok) =>
        /\ built.vm["check"] = "http" => built.vm["url"] \notin {PyNone, ""}
        /\ built.vm["check"] = "ping" => built.vm["url"] = PyNone

\* C9: a record whose name, ip, os, status, check and url are well-formed
\* is accepted, whichever of cpu_percent, memory_percent and
\* response_time_ms it omits.
MetricsOptional ==
    (/\ built.done
     /\ \A f \in {"name", "ip", "os", "status", "check", "url", "health"} : ~FieldFails(raw, f)
     /\ \A f \in {"cpu_percent", "memory_percent", "response_time_ms"} :
            Has(raw, f) => ~FieldFails(raw, f))
        => built.ok

FieldIndex(f) == CHOOSE i \in 1..Len(FieldOrder) : FieldOrder[i] = f

\* C10 as stated: a rejected input is reported with exactly one failing
\* field, the first failing check in field order.
ExactlyOneFailure ==
    (built.done /\ ~built.ok) =>
        /\ Len(built.errors) = 1
        /\ FieldFails(raw, built.errors[1])
        /\ \A i \in 1..(FieldIndex(built.errors[1]) - 1) : ~FieldFails(raw, FieldOrder[i])

\* C10, amended: every input is accepted, with no failure, or rejected with
\* one entry for each field that fails its check and no other, listed in
\* field order, so that the first entry is the first failing check.
EveryFailureInOrder ==
    built.done =>
        /\ built.ok \in BOOLEAN
        /\ built.ok <=> built.errors = <<>>
        /\ {built.errors[i] : i \in 1..Len(built.errors)}
              = {FieldOrder[i] : i \in {j \in 1..Len(FieldOrder) : FieldFails(raw, FieldOrder[j])}}
        /\ \A i, j \in 1..Len(built.errors) :
              i < j => FieldIndex(built.errors[i]) < FieldIndex(built.errors[j])

SeveralFailuresWitness ==
    /\ built.done /\ ~built.ok
    /\ built.errors = <<"name", "os", "cpu_percent">>

(***************************************************************************)
(* Properties of monitor_vm.                                               *)
(***************************************************************************)
\* The health the decision table gives: http without url is CRIT, a probe
\* that does not get through is CRIT, http status 500 and above is CRIT,
\* http status 400 and above or more than 400 ms is WARN, a ping of more
\* than 250 ms is WARN, anything else is OK.
TableHealth(vm, net) ==
    IF vm["check"] = "http"
    THEN IF vm["url"] \in {PyNone, ""} THEN "CRIT"
         ELSE IF net.http.exc THEN "CRIT"
         ELSE IF net.http.status_code >= 500 THEN "CRIT"
         ELSE IF net.http.status_code >= 400 \/ net.http.elapsed_ms > 400 THEN "WARN"
         ELSE "OK"
    ELSE IF ~net.ping.success THEN "CRIT"
         ELSE IF net.ping.elapsed_ms > 250 THEN "WARN"
         ELSE "OK"

\* C11: for every model and every behaviour of the network in which the
\* probe can be run, monitor_vm returns a result whose health is the one
\* the decision table gives.
ClassificationFollowsTable ==
    (mon.pc = "done" /\ ~mon.net.ping.raises) =>
        /\ ~mon.out.raises
        /\ mon.out.result["health"] = TableHealth(mon.vm, mon.net)

\* Where monitor_vm does return, its health is the one of the table.
ReturnedHealthFollowsTable ==
    (mon.pc = "done" /\ ~mon.out.raises) =>
        mon.out.result["health"] = TableHealth(mon.vm, mon.net)

\* C12: no call of monitor_vm on a validated record ends in an exception of
\* the probe: run_ping and run_http return their tuple, and a probe that
\* could not be executed shows as a failed probe, health CRIT.
ProbeNeverRaises ==
    mon.pc = "done" =>
        /\ ~mon.out.raises
        /\ (mon.vm["check"] = "ping" /\ mon.net.ping.raises) =>
                mon.out.result["health"] = "CRIT"

(***************************************************************************)
(* Properties of validate_all_instances.                                   *)
(***************************************************************************)
\* The entries handled so far that left no skip entry, in input order.
KeptIndices(n, logged) == SelectSeq([i \in 1..n |-> i], LAMBDA i : i \notin logged)

LoggedIndices == {batch.log[i].idx : i \in 1..Len(batch.log)}

\* Every entry handled so far has either one result or one skip entry, and
\* the results are those of the entries without skip entry, in input order.
EachEntryOnceInOrder ==
    batch.pc # "off" =>
        LET n == batch.idx - 1
            kept == KeptIndices(n, LoggedIndices)
        IN  /\ n <= Len(batch.instances)
            /\ LoggedIndices \subseteq 1..n
            /\ Cardinality(LoggedIndices) = Len(batch.log)
            /\ Len(batch.results) = Len(kept)
            /\ \A k \in 1..Len(kept) :
                  /\ batch.results[k]["name"] = batch.instances[kept[k]]["name"]
                  /\ batch.results[k]["method"] = batch.instances[kept[k]]["check"]
            /\ batch.pc = "done" => n = Len(batch.instances)

\* C13: validate_all_instances handles each entry once, with one result or
\* one skip entry, keeps the results in input order, and given three entries
\* of which only the second is invalid ends with the results of the first
\* and the third, in that order, and one skip entry.
BatchIsolatesInOrder ==
    /\ EachEntryOnceInOrder
    /\ (/\ batch.pc = "done"
        /\ Len(batch.instances) = 3
        /\ VMInstance(batch.instances[1]).ok
        /\ ~VMInstance(batch.instances[2]).ok
        /\ VMInstance(batch.instances[3]).ok)
          => /\ Len(batch.results) = 2
             /\ batch.results[1]["name"] = batch.instances[1]["name"]
             /\ batch.results[2]["name"] = batch.instances[3]["name"]
             /\ batch.log = <<SkipEntry(2, "invalid")>>

\* C14: every run of validate_all_instances reaches its report, having
\* given every entry of the input its result or its skip entry, whatever
\* failed on the way.
BatchCompletes ==
    <>(/\ batch.pc = "done"
       /\ batch.idx = Len(batch.instances) + 1
       /\ Len(batch.results) + Len(batch.log) = Len(batch.instances))

\* A run in which the probe of the first entry failed, the second entry was
\* invalid, and the third was still validated and probed.
BatchCompletesWitness ==
    /\ batch.pc = "done"
    /\ batch.log = <<SkipEntry(1, "monitoring failed"), SkipEntry(2, "invalid")>>
    /\ Len(batch.results) = 1
    /\ batch.report = "did not pass"

(***************************************************************************)
(* Properties of display_statistics.                                       *)
(***************************************************************************)
EmptyRecordSet == stats.pc = "done" /\ instances_file = DictFile(<<>>)

Averages == {"avg_rt", "avg_cpu", "avg_mem"}

\* C15 as stated: on an empty record set the statistics are reported with
\* total 0, UP 0, DOWN 0 and the three averages 0.
EmptyReportsZeros ==
    EmptyRecordSet =>
        /\ ~stats.out.raised
        /\ stats.out.printed = "VM Summary"
        /\ stats.out.total = 0 /\ stats.out.up = 0 /\ stats.out.down = 0
        /\ \A a \in Averages : stats.out[a].num = 0

\* C15, amended: on an instances file that holds an empty list the function
\* ends without error by reporting that no machines were found, and reports
\* no count and no average; whenever it does report averages the record set
\* is not empty and no average divides by zero.
EmptyReportsNoMachines ==
    /\ EmptyRecordSet =>
          /\ ~stats.out.raised
          /\ stats.out.printed = "No machines found"
          /\ DOMAIN stats.out = {"raised", "printed"}
    /\ (stats.pc = "done" /\ stats.out.printed = "VM Summary") =>
          /\ stats.out.total > 0
          /\ \A a \in Averages : stats.out[a].den > 0

EmptyWitness ==
    /\ EmptyRecordSet
    /\ stats.out.printed = "No machines found"

\* The number of records whose status is v.
StatusCount(v) ==
    Cardinality({i \in 1..Len(instances_file.instances) :
                    /\ Has(instances_file.instances[i], "status")
                    /\ instances_file.instances[i]["status"] = v})

\* C16: in every summary the UP count is the number of records with status
\* UP and the DOWN count the number of records with status DOWN, also when
\* records lack a status or carry another one.
CountsPerStatusValue ==
    (stats.pc = "done" /\ stats.out.printed = "VM Summary") =>
        /\ stats.out.up = StatusCount("UP")
        /\ stats.out.down = StatusCount("DOWN")

\* The indices of the records that carry metric f.
Present(f) ==
    {i \in 1..Len(instances_file.instances) : Has(instances_file.instances[i], f)}

RECURSIVE SumOver(_, _)
SumOver(I, f) ==
    IF I = {} THEN 0
    ELSE LET i == CHOOSE x \in I : TRUE
         IN  instances_file.instances[i][f] + SumOver(I \ {i}, f)

MetricOf(a) ==
    CASE a = "avg_rt" -> "response_time_ms"
      [] a = "avg_cpu" -> "cpu_percent"
      [] a = "avg_mem" -> "memory_percent"

\* C17: each average of a summary is the sum of its metric over the records
\* that carry it, divided by the number of those records; records without
\* the metric count neither in the sum nor in the divisor, and an average
\* over no record is 0.
AveragesExcludeMissing ==
    (stats.pc = "done" /\ stats.out.printed = "VM Summary") =>
        \A a \in Averages :
            IF Present(MetricOf(a)) = {}
            THEN stats.out[a].num = 0 /\ stats.out[a].den = 1
            ELSE /\ stats.out[a].num = SumOver(Present(MetricOf(a)), MetricOf(a))
                 /\ stats.out[a].den = Cardinality(Present(MetricOf(a)))

\* [{cpu_percent: 50}, {cpu_percent missing}]: average 50, divisor 1.
AverageWitness ==
    /\ stats.pc = "done" /\ stats.out.printed = "VM Summary"
    /\ Len(instances_file.instances) = 2
    /\ Has(instances_file.instances[1], "cpu_percent")
    /\ instances_file.instances[1]["cpu_percent"] = 50
    /\ ~Has(instances_file.instances[2], "cpu_percent")
    /\ stats.out.avg_cpu = [num |-> 50, den |-> 1]

(***************************************************************************)
(* Properties of the store under concurrent requests.                      *)
(***************************************************************************)
HoldsRecord(instances, record) == \E i \in 1..Len(instances) : instances[i] = record

\* C18: when an add is answered 201 and the response before it was the 201
\* of an add of another name (nothing was deleted in between), the store
\* holds the records of both.
NoAcknowledgedAddLost ==
    [][ (/\ Answered
         /\ resp.op = "add" /\ resp.code = 201
         /\ resp'.op = "add" /\ resp'.code = 201
         /\ resp.payload["name"] # resp'.payload["name"])
            => /\ HoldsRecord(LoadInstances(instances_file'), resp.payload)
               /\ HoldsRecord(LoadInstances(instances_file'), resp'.payload)
      ]_vars

\* C19: every record of the instances file passes VMInstance, the store
\* having started with valid records only.
StoredRecordsValid == \A i \in 1..Len(Stored) : VMInstance(Stored[i]).ok

\* An update has changed a stored record and an add has put one in.
StoredValidWitness ==
    /\ resp.op = "update" /\ resp.code = 200 /\ resp.payload = [status |-> "DOWN"]
    /\ \E i \in 1..Len(Stored) : Stored[i]["status"] = "DOWN"
    /\ Len(Stored) = 2

====
